---- MODULE Spec2Model ----
(***************************************************************************)
(* A model of ffheic.py: a one-shot command-line driver that converts HEIC *)
(* images by running ffmpeg once per discovered file.                      *)
(*                                                                         *)
(* Text (str) is a sequence of tokens.  File names, extensions and the     *)
(* tool's codec listing are spelled one character per token, because the   *)
(* code inspects them (stem, glob match, lower, substring); message        *)
(* literals and command flags are one token each.  A path is the sequence  *)
(* of its components below "/".                                            *)
(*                                                                         *)
(* Environment: the file tree, PATH (which) and the tool's exit statuses   *)
(* are nondeterministic.  The tool is a black box: exit status 0 writes    *)
(* the destination, any other status writes nothing.  OS faults other than *)
(* the tool's exit status (permissions, full disk, signals, a binary that  *)
(* cannot be started) are outside the model; convert_file documents        *)
(* CalledProcessError as its one failure.                                  *)
(***************************************************************************)
EXTENDS Integers, Sequences, FiniteSets, TLC

VARIABLES
    pc,          \* position in main()
    fs,          \* the file tree: path -> [kind, data]
    which,       \* what shutil.which("ffmpeg") finds on PATH (<<>> = None)
    argv,        \* the command line: [i, o], <<>> = option not given
    config,      \* Config(input_path, output_ext)
    ffmpeg_path, \* main's ffmpeg_path
    heic_files,  \* main's heic_files
    out_dir,     \* main's out_dir
    idx,         \* number of loop iterations of main's for loop done
    events,      \* what the process did, in order: lines written, tool runs, mkdirs
    now,         \* the clock read by datetime.now()
    exit_code,   \* the process's exit status, -1 while it runs
    call         \* LogSpec only: the arguments of the log() call under test

vars == <<pc, fs, which, argv, config, ffmpeg_path, heic_files, out_dir, idx,
          events, now, exit_code, call>>

(***************************************************************************)
(* Bounds                                                                  *)
(***************************************************************************)
\* at most this many regular files in the input tree
MaxFiles == 3
\* log() is tried with messages of at most this many tokens
MaxMsgLen == 2
\* log() is tried with at most this many extra arguments
MaxArgs == 2

(***************************************************************************)
(* Text helpers                                                            *)
(***************************************************************************)
Last(s) == s[Len(s)]

Range(s) == {s[i] : i \in 1..Len(s)}

\* sub in s, for str
Contains(sub, s) ==
    \E i \in 0..(Len(s) - Len(sub)) : SubSeq(s, i + 1, i + Len(sub)) = sub

\* p is a prefix of s
IsPrefix(p, s) == Len(p) <= Len(s) /\ SubSeq(s, 1, Len(p)) = p

\* str.lower on one character
LowerChar(c) ==
    CASE c = "H" -> "h" [] c = "E" -> "e" [] c = "I" -> "i" [] c = "C" -> "c"
      [] c = "F" -> "f" [] c = "P" -> "p" [] c = "N" -> "n" [] c = "G" -> "g"
      [] c = "J" -> "j" [] OTHER -> c

\* str.lower
Lower(s) == [i \in 1..Len(s) |-> LowerChar(s[i])]

\* str.rfind(ch), 1-based, 0 when absent
RFind(s, ch) ==
    LET hits == {i \in 1..Len(s) : s[i] = ch}
    IN IF hits = {} THEN 0 ELSE CHOOSE i \in hits : \A j \in hits : j <= i

RECURSIVE JoinSpace(_)
\* " ".join(parts)
JoinSpace(parts) ==
    IF parts = <<>> THEN <<>>
    ELSE IF Len(parts) = 1 THEN Head(parts)
    ELSE Head(parts) \o <<" ">> \o JoinSpace(Tail(parts))

(***************************************************************************)
(* pathlib                                                                 *)
(***************************************************************************)
\* Path.parent
Parent(p) == IF p = <<>> THEN <<>> ELSE SubSeq(p, 1, Len(p) - 1)

\* Path.name
Name(p) == IF p = <<>> THEN <<>> ELSE Last(p)

\* Path.stem: the name without its last suffix; a leading or trailing dot
\* starts no suffix
Stem(p) ==
    LET name == Name(p)
        i == RFind(name, ".")
    IN IF 1 < i /\ i < Len(name) THEN SubSeq(name, 1, i - 1) ELSE name

RECURSIVE PathStr(_)
\* str(path) of an absolute path
PathStr(p) ==
    IF p = <<>> THEN <<>> ELSE PathStr(Parent(p)) \o <<"/">> \o Last(p)

RECURSIVE Resolve(_)
\* Path.resolve(): "." and ".." components are folded away
Resolve(raw) ==
    IF raw = <<>> THEN <<>>
    ELSE LET c == Last(raw)
             r == Resolve(Parent(raw))
         IN IF c = <<".">> THEN r
            ELSE IF c = <<".", ".">> THEN Parent(r)
            ELSE Append(r, c)

\* Path.exists, Path.is_file, Path.is_dir on the tree t
Exists(t, p) == p \in DOMAIN t
IsFile(t, p) == p \in DOMAIN t /\ t[p].kind = "file"
IsDir(t, p) == p \in DOMAIN t /\ t[p].kind = "dir"

(***************************************************************************)
(* Names and the file trees the runs start from                            *)
(***************************************************************************)
\* the suffix of the names rglob("*.heic") matches
heic == <<".", "h", "e", "i", "c">>
png == <<"p", "n", "g">>
jpg == <<"j", "p", "g">>
converted == <<"converted">>

InDir == << <<"i", "n">> >>
SubDir == Append(InDir, <<"s", "u", "b">>)
DeepDir == Append(SubDir, <<"d", "e", "e", "p">>)
\* a directory whose name matches the pattern
HeicDir == Append(InDir, <<"d">> \o heic)

FileA == Append(InDir, <<"a">> \o heic)
FileB == Append(InDir, <<"b", ".", "H", "E", "I", "C">>)
FileC == Append(InDir, <<"c", ".", "t", "x", "t">>)
FileSubA == Append(SubDir, <<"a">> \o heic)
FileDeep == Append(DeepDir, <<"e", ".", "x">> \o heic)
\* a path that never exists
Missing == Append(InDir, <<"z", "z">>)

\* an output directory left by an earlier run, with one converted file in it
OldOutDir == Append(InDir, converted)
OldOutput == Append(OldOutDir, <<"a", ".">> \o png)

CandidateFiles == {FileA, FileB, FileC, FileSubA, FileDeep}

RECURSIVE Ancestors(_)
Ancestors(p) == IF Len(p) <= 1 THEN {} ELSE {Parent(p)} \cup Ancestors(Parent(p))

\* the contents of a file: which image it holds, in which format
Data(orig, fmt) == [orig |-> orig, fmt |-> fmt]
NoData == Data(<<>>, <<>>)
FileEntry(p) == [kind |-> "file", data |-> Data(p, <<"source">>)]
DirEntry == [kind |-> "dir", data |-> NoData]

\* the tree holding the regular files F, the empty directories D, and the
\* earlier run's output directory if old
Tree(F, D, old) ==
    LET dirs == {InDir} \cup D \cup UNION {Ancestors(f) : f \in F}
                \cup (IF old THEN {OldOutDir} ELSE {})
        files == F \cup (IF old THEN {OldOutput} ELSE {})
    IN [p \in dirs \cup files |->
          IF p \in dirs THEN DirEntry
          ELSE IF p = OldOutput THEN [kind |-> "file", data |-> Data(<<"old">>, png)]
          ELSE FileEntry(p)]

Trees ==
    {Tree(F, D, old) : F \in {G \in SUBSET CandidateFiles : Cardinality(G) <= MaxFiles},
                       D \in SUBSET {HeicDir}, old \in BOOLEAN}

(***************************************************************************)
(* The process's effects                                                   *)
(***************************************************************************)
\* a line written to standard output
Out(line) == [kind |-> "stdout", text |-> line, cmd |-> <<>>, rc |-> 0]
\* a message written to standard error
Err(line) == [kind |-> "stderr", text |-> line, cmd |-> <<>>, rc |-> 0]
\* subprocess.run(cmd): the tool's exit status rc (-1: the call raised) and
\* the output captured from it
Run(cmd, rc, captured) == [kind |-> "run", text |-> captured, cmd |-> cmd, rc |-> rc]
\* Path.mkdir
Mkdir(path) == [kind |-> "mkdir", text |-> PathStr(path), cmd |-> <<>>, rc |-> 0]

(***************************************************************************)
(* Values passed to log() and their str()                                  *)
(***************************************************************************)
Val(type, repr) == [type |-> type, repr |-> repr]
PathVal(p) == Val("path", PathStr(p))
StrVal(s) == Val("str", s)

Digit(d) ==
    CASE d = 0 -> "0" [] d = 1 -> "1" [] d = 2 -> "2" [] d = 3 -> "3" [] d = 4 -> "4"
      [] d = 5 -> "5" [] d = 6 -> "6" [] d = 7 -> "7" [] d = 8 -> "8" [] OTHER -> "9"

RECURSIVE Digits(_)
\* str(n) for n >= 0
Digits(n) == IF n < 10 THEN <<Digit(n)>> ELSE Digits(n \div 10) \o <<Digit(n % 10)>>

\* datetime.isoformat() of the clock value n
IsoFormat(n) == <<"T">> \o Digits(n)

RECURSIVE Quoted(_)
Quoted(cmd) ==
    IF cmd = <<>> THEN <<>>
    ELSE <<"'">> \o Head(cmd) \o <<"'">>
         \o (IF Len(cmd) > 1 THEN <<", ">> ELSE <<>>) \o Quoted(Tail(cmd))

\* str(subprocess.CalledProcessError(rc, cmd))
ExcVal(cmd, rc) ==
    Val("exc", <<"Command '[">> \o Quoted(cmd)
               \o <<"]' returned non-zero exit status ">> \o Digits(rc) \o <<".">>)

(***************************************************************************)
(* log                                                                     *)
(***************************************************************************)
Placeholders == {"%s", "%d"}

RECURSIVE Interpolate(_, _)
\* message % args: [ok, text]; not ok when it raises TypeError (too few or
\* too many arguments, or %d given a value that is no number)
Interpolate(message, args) ==
    IF message = <<>> THEN [ok |-> args = <<>>, text |-> <<>>]
    ELSE IF Head(message) \in Placeholders
    THEN IF args = <<>> THEN [ok |-> FALSE, text |-> <<>>]
         ELSE IF Head(message) = "%d" /\ Head(args).type # "int"
         THEN [ok |-> FALSE, text |-> <<>>]
         ELSE LET r == Interpolate(Tail(message), Tail(args))
              IN [ok |-> r.ok, text |-> Head(args).repr \o r.text]
    ELSE LET r == Interpolate(Tail(message), args)
         IN [ok |-> r.ok, text |-> <<Head(message)>> \o r.text]

\* log(level, message, *args) when the clock reads t: the lines it writes
Log(t, level, message, args) ==
    LET ts == IsoFormat(t)
        r == Interpolate(message, args)
        text == IF r.ok THEN r.text
                ELSE message \o <<" ">> \o JoinSpace([i \in 1..Len(args) |-> args[i].repr])
    IN IF args # <<>> THEN << Out(ts \o <<" ", level, " ">> \o text) >> ELSE <<>>

(***************************************************************************)
(* parse_args                                                              *)
(***************************************************************************)
\* the values given to -i and -o; <<>> stands for an option left out
RawInputs ==
    {<<>>, InDir, SubDir, FileA, FileB, Missing,
     SubDir \o << <<".", ".">>, Name(FileC) >>}
RawOutputs == {<<>>, png, jpg, <<"P", "N", "G">>, <<"g", "i", "f">>}
Argvs == [i : RawInputs, o : RawOutputs]

NoArgv == [i |-> <<>>, o |-> <<>>]
NoConfig == [input_path |-> <<>>, output_ext |-> <<>>]

\* argparse: both options are required and -o takes one of the choices
ArgparseAccepts(a) == a.i # <<>> /\ a.o \in {png, jpg}

\* parse_args: [ok, config]; not ok when parser.error ends the process
ParseArgs(t, a) ==
    LET input_path == Resolve(a.i)
    IN IF ~ArgparseAccepts(a) THEN [ok |-> FALSE, config |-> NoConfig]
       ELSE IF ~Exists(t, input_path) THEN [ok |-> FALSE, config |-> NoConfig]
       ELSE [ok |-> TRUE,
             config |-> [input_path |-> input_path, output_ext |-> Lower(a.o)]]

(***************************************************************************)
(* find_ffmpeg, ffmpeg_has_heif_support                                    *)
(***************************************************************************)
FfmpegBin == << <<"b", "i", "n">>, <<"ffmpeg">> >>

\* find_ffmpeg falling back to a default location when which() finds nothing
FindFfmpegDefault(w) == IF w # <<>> THEN w ELSE FfmpegBin

\* find_ffmpeg: the path which() gives, <<>> for None
FindFfmpeg(w) == IF w # <<>> THEN w ELSE <<>>

\* what running "ffmpeg -codecs" can do: exit with a status and a listing,
\* or make subprocess.run raise (rc = -1), as when the listing does not decode
CodecLists ==
    {<<>>, <<"h", "e", "v", "c">>, <<"h", "e", "i", "c">>,
     <<"D", "E", "V", " ", "H", "E", "I", "F">>}
ProbeOutcomes ==
    [rc : {0}, out : CodecLists] \cup {[rc |-> 1, out |-> <<>>], [rc |-> -1, out |-> <<>>]}

ProbeCmd(path) == <<PathStr(path), <<"-codecs">>>>

\* ffmpeg_has_heif_support, given what the run of "ffmpeg -codecs" did
FfmpegHasHeifSupport(outcome) ==
    IF outcome.rc = -1 THEN FALSE
    ELSE \/ Contains(<<"h", "e", "i", "f">>, Lower(outcome.out))
         \/ Contains(<<"h", "e", "i", "c">>, Lower(outcome.out))

(***************************************************************************)
(* collect_heic_files                                                      *)
(***************************************************************************)
\* fnmatch ignoring case
MatchesPatternAnyCase(name) ==
    Len(name) >= Len(heic)
    /\ Lower(SubSeq(name, Len(name) - Len(heic) + 1, Len(name))) = heic

\* fnmatch of a name against "*.heic", case-sensitive
MatchesPattern(name) ==
    Len(name) >= Len(heic) /\ SubSeq(name, Len(name) - Len(heic) + 1, Len(name)) = heic

\* the entries Path.rglob("*.heic") yields below dir
RGlob(t, dir) ==
    {p \in DOMAIN t : Len(p) > Len(dir) /\ IsPrefix(dir, p) /\ MatchesPattern(Name(p))}

\* the orders in which a walk can yield the entries S: a directory's own
\* entries, in any order, before those of its subdirectories
WalkOrders(S) ==
    {s \in [1..Cardinality(S) -> S] :
        /\ \A i, j \in 1..Cardinality(S) : i # j => s[i] # s[j]
        /\ \A i, j \in 1..Cardinality(S) :
              (i < j) => ~(Parent(s[j]) # Parent(s[i]) /\ IsPrefix(Parent(s[j]), Parent(s[i])))}

\* collect_heic_files: the lists it can return
CollectHeicFiles(t, input_path) ==
    IF IsFile(t, input_path) THEN {<<input_path>>}
    ELSE WalkOrders({p \in RGlob(t, input_path) : IsFile(t, p)})

(***************************************************************************)
(* prepare_output_dir                                                      *)
(***************************************************************************)
\* prepare_output_dir writing next to the source, with no directory of its own
PrepareOutputDirInPlace(first_source) == Parent(first_source)

\* prepare_output_dir: the directory it returns
PrepareOutputDir(first_source) == Append(Parent(first_source), converted)

\* Path.mkdir(parents=True, exist_ok=True)
MkdirP(t, d) ==
    LET new == ({d} \cup Ancestors(d)) \ DOMAIN t
    IN [p \in DOMAIN t \cup new |-> IF p \in DOMAIN t THEN t[p] ELSE DirEntry]

(***************************************************************************)
(* convert_file and the body of main's loop                                *)
(***************************************************************************)
\* dest_name built from the whole name instead of the stem
DestNameKeepsSuffix(file, output_ext) == Name(file) \o <<".">> \o output_ext

\* main: dest_name
DestName(file, output_ext) == Stem(file) \o <<".">> \o output_ext

\* main: destination
Destination(dir, file, output_ext) == Append(dir, DestName(file, output_ext))

\* convert_file: cmd
ConvertCmd(path, source, destination, output_ext) ==
    LET base == <<PathStr(path), <<"-hide_banner">>, <<"-loglevel">>, <<"error">>,
                  <<"-y">>, <<"-i">>, PathStr(source)>>
    IN IF output_ext = png THEN Append(base, PathStr(destination))
       ELSE base \o << <<"-c:v">>, <<"libx264">>, <<"-pix_fmt">>, <<"yuv420p">>,
                       PathStr(destination) >>

\* convert_file logging only once the tool has run
ConvertFileLogsLate(path, source, destination, output_ext, t, rc) ==
    << Run(ConvertCmd(path, source, destination, output_ext), rc, <<>>) >>
    \o Log(t, "INFO", <<"Converting: ", "%s", " -> ", "%s">>,
           <<PathVal(source), PathVal(destination)>>)

\* convert_file, the tool exiting with rc, the clock reading t: what it does
\* (the arrow of the message is written "->")
ConvertFile(path, source, destination, output_ext, t, rc) ==
    Log(t, "INFO", <<"Converting: ", "%s", " -> ", "%s">>,
        <<PathVal(source), PathVal(destination)>>)
    \o << Run(ConvertCmd(path, source, destination, output_ext), rc, <<>>) >>

\* main's except and else clauses around convert_file
ConvertOutcome(path, file, destination, output_ext, t, rc) ==
    IF rc # 0
    THEN Log(t, "ERROR", <<"Failed to convert ", "%s", ": ", "%s">>,
             <<PathVal(file), ExcVal(ConvertCmd(path, file, destination, output_ext), rc)>>)
    ELSE Log(t, "INFO", <<"Converted: ", "%s", " -> ", "%s">>,
             <<PathVal(file), PathVal(destination)>>)

\* the tool's exit statuses
ExitStatuses == {0, 1}

\* the tool's effect on the tree: with -y it replaces the destination
ToolWrites(t, source, destination, output_ext, rc) ==
    IF rc # 0 \/ ~IsDir(t, Parent(destination)) THEN t
    ELSE [p \in DOMAIN t \cup {destination} |->
            IF p = destination
            THEN [kind |-> "file", data |-> Data(t[source].data.orig, output_ext)]
            ELSE t[p]]

(***************************************************************************)
(* main                                                                    *)
(***************************************************************************)
NoCall == [level |-> "", message |-> <<>>, args |-> <<>>]

Init ==
    /\ pc = "parse_args"
    /\ fs \in Trees
    /\ which \in {<<>>, FfmpegBin}
    /\ argv = NoArgv
    /\ config = NoConfig
    /\ ffmpeg_path = <<>>
    /\ heic_files = <<>>
    /\ out_dir = <<>>
    /\ idx = 0
    /\ events = <<>>
    /\ now = 0
    /\ exit_code = -1
    /\ call = NoCall

\* config = parse_args(); a usage error ends the process with status 2
DoParseArgs ==
    /\ pc = "parse_args"
    /\ \E a \in Argvs :
         LET r == ParseArgs(fs, a)
         IN /\ argv' = a
            /\ IF r.ok
               THEN /\ config' = r.config
                    /\ pc' = "find_ffmpeg"
                    /\ UNCHANGED <<events, exit_code>>
               ELSE /\ events' = Append(events, Err(<<"usage">>))
                    /\ exit_code' = 2
                    /\ pc' = "usage_error"
                    /\ UNCHANGED config
    /\ UNCHANGED <<fs, which, ffmpeg_path, heic_files, out_dir, idx, now, call>>

\* ffmpeg_path = find_ffmpeg(); None raises SystemExit(message): status 1
DoFindFfmpeg ==
    /\ pc = "find_ffmpeg"
    /\ ffmpeg_path' = FindFfmpeg(which)
    /\ IF ffmpeg_path' = <<>>
       THEN /\ events' = Append(events, Err(<<"ffmpeg not found on PATH. Install ffmpeg and try again.">>))
            /\ exit_code' = 1
            /\ pc' = "no_ffmpeg"
       ELSE /\ pc' = "probe"
            /\ UNCHANGED <<events, exit_code>>
    /\ UNCHANGED <<fs, which, argv, config, heic_files, out_dir, idx, now, call>>

\* if not ffmpeg_has_heif_support(ffmpeg_path): log("WARNING", ...)
DoProbe ==
    /\ pc = "probe"
    /\ \E outcome \in ProbeOutcomes :
         LET ran == Run(ProbeCmd(ffmpeg_path), outcome.rc, outcome.out)
         IN IF ~FfmpegHasHeifSupport(outcome)
            THEN /\ events' = Append(events, ran)
                              \o Log(now, "WARNING",
                                     <<"ffmpeg was found but may lack HEIC/HEIF support.">>, <<>>)
                 /\ now' = now + 1
            ELSE /\ events' = Append(events, ran)
                 /\ UNCHANGED now
    /\ pc' = "collect"
    /\ UNCHANGED <<fs, which, argv, config, ffmpeg_path, heic_files, out_dir, idx,
                   exit_code, call>>

\* DoCollect with an empty discovery treated as an error
DoCollectEmptyIsError ==
    /\ pc = "collect"
    /\ heic_files' \in CollectHeicFiles(fs, config.input_path)
    /\ IF heic_files' = <<>>
       THEN /\ events' = Append(events, Out(<<"No HEIC files found to convert.">>))
            /\ exit_code' = 1
            /\ pc' = "nothing_found"
       ELSE /\ pc' = "prepare"
            /\ UNCHANGED <<events, exit_code>>
    /\ UNCHANGED <<fs, which, argv, config, ffmpeg_path, out_dir, idx, now, call>>

\* heic_files = collect_heic_files(config.input_path); none: print and return
DoCollect ==
    /\ pc = "collect"
    /\ heic_files' \in CollectHeicFiles(fs, config.input_path)
    /\ IF heic_files' = <<>>
       THEN /\ events' = Append(events, Out(<<"No HEIC files found to convert.">>))
            /\ exit_code' = 0
            /\ pc' = "nothing_found"
       ELSE /\ pc' = "prepare"
            /\ UNCHANGED <<events, exit_code>>
    /\ UNCHANGED <<fs, which, argv, config, ffmpeg_path, out_dir, idx, now, call>>

\* out_dir = prepare_output_dir(heic_files[0]); log "Conversion started"
DoPrepare ==
    /\ pc = "prepare"
    /\ out_dir' = PrepareOutputDir(heic_files[1])
    /\ fs' = MkdirP(fs, out_dir')
    /\ events' = Append(events, Mkdir(out_dir'))
                 \o Log(now + 1, "INFO", <<"=== Conversion started: ", "%s", " ===">>,
                        <<StrVal(IsoFormat(now))>>)
    /\ now' = now + 2
    /\ pc' = "loop"
    /\ UNCHANGED <<which, argv, config, ffmpeg_path, heic_files, idx, exit_code, call>>

\* DoConvert with the failure left uncaught: the exception ends the process
DoConvertUncaught ==
    /\ pc = "loop"
    /\ idx < Len(heic_files)
    /\ \E rc \in ExitStatuses :
         LET file == heic_files[idx + 1]
             destination == Destination(out_dir, file, config.output_ext)
         IN /\ events' = events
                   \o ConvertFile(ffmpeg_path, file, destination, config.output_ext, now, rc)
                   \o ConvertOutcome(ffmpeg_path, file, destination, config.output_ext,
                                     now + 1, rc)
            /\ fs' = ToolWrites(fs, file, destination, config.output_ext, rc)
            /\ IF rc # 0
               THEN pc' = "crashed" /\ exit_code' = 1
               ELSE UNCHANGED <<pc, exit_code>>
    /\ idx' = idx + 1
    /\ now' = now + 2
    /\ UNCHANGED <<which, argv, config, ffmpeg_path, heic_files, out_dir, call>>

\* one iteration of "for file in heic_files"
DoConvert ==
    /\ pc = "loop"
    /\ idx < Len(heic_files)
    /\ \E rc \in ExitStatuses :
         LET file == heic_files[idx + 1]
             destination == Destination(out_dir, file, config.output_ext)
         IN /\ events' = events
                   \o ConvertFile(ffmpeg_path, file, destination, config.output_ext, now, rc)
                   \o ConvertOutcome(ffmpeg_path, file, destination, config.output_ext,
                                     now + 1, rc)
            /\ fs' = ToolWrites(fs, file, destination, config.output_ext, rc)
    /\ idx' = idx + 1
    /\ now' = now + 2
    /\ UNCHANGED <<pc, which, argv, config, ffmpeg_path, heic_files, out_dir,
                   exit_code, call>>

\* DoFinish with the exit status reporting failed conversions
DoFinishReportsFailures ==
    /\ pc = "loop"
    /\ idx = Len(heic_files)
    /\ events' = events
                 \o Log(now + 1, "INFO", <<"=== Conversion finished: ", "%s", " ===">>,
                        <<StrVal(IsoFormat(now))>>)
    /\ now' = now + 2
    /\ exit_code' = IF \E k \in 1..Len(events) : events[k].kind = "run" /\ events[k].rc > 0
                    THEN 1 ELSE 0
    /\ pc' = "returned"
    /\ UNCHANGED <<fs, which, argv, config, ffmpeg_path, heic_files, out_dir, idx, call>>

\* log "Conversion finished" and return
DoFinish ==
    /\ pc = "loop"
    /\ idx = Len(heic_files)
    /\ events' = events
                 \o Log(now + 1, "INFO", <<"=== Conversion finished: ", "%s", " ===">>,
                        <<StrVal(IsoFormat(now))>>)
    /\ now' = now + 2
    /\ exit_code' = 0
    /\ pc' = "returned"
    /\ UNCHANGED <<fs, which, argv, config, ffmpeg_path, heic_files, out_dir, idx, call>>

Next ==
    \/ DoParseArgs
    \/ DoFindFfmpeg
    \/ DoProbe
    \/ DoCollect
    \/ DoPrepare
    \/ DoConvert
    \/ DoFinish

Spec == Init /\ [][Next]_vars

(***************************************************************************)
(* log on its own: one call with arbitrary arguments                       *)
(***************************************************************************)
RECURSIVE SeqsUpTo(_, _)
SeqsUpTo(S, n) ==
    IF n = 0 THEN {<<>>}
    ELSE LET shorter == SeqsUpTo(S, n - 1)
         IN shorter \cup {Append(s, x) : s \in shorter, x \in S}

LogLevels == {"INFO", "WARNING", "ERROR"}
LogTokens == {"text", "%s", "%d"}
LogValues == {StrVal(<<"v">>), Val("int", <<"7">>)}
LogCalls ==
    [level : LogLevels, message : SeqsUpTo(LogTokens, MaxMsgLen),
     args : SeqsUpTo(LogValues, MaxArgs)]

InitLog ==
    /\ pc = "log"
    /\ call \in LogCalls
    /\ fs = Tree({}, {}, FALSE)
    /\ which = <<>>
    /\ argv = NoArgv
    /\ config = NoConfig
    /\ ffmpeg_path = <<>>
    /\ heic_files = <<>>
    /\ out_dir = <<>>
    /\ idx = 0
    /\ events = <<>>
    /\ now = 0
    /\ exit_code = -1

\* log(call.level, call.message, *call.args)
DoLog ==
    /\ pc = "log"
    /\ events' = events \o Log(now, call.level, call.message, call.args)
    /\ now' = now + 1
    /\ pc' = "logged"
    /\ UNCHANGED <<fs, which, argv, config, ffmpeg_path, heic_files, out_dir, idx,
                   exit_code, call>>

NextLog == DoLog

LogSpec == InitLog /\ [][NextLog]_vars

(***************************************************************************)
(* Reading the record of a run                                             *)
(***************************************************************************)
Terminated == exit_code # -1

EventIdx == 1..Len(events)
IsStdout(e) == e.kind = "stdout"
IsMkdir(e) == e.kind = "mkdir"
IsRun(e) == e.kind = "run"
\* a run of "ffmpeg -codecs"
IsProbe(e) == IsRun(e) /\ <<"-codecs">> \in Range(e.cmd)
\* a run of "ffmpeg ... -i source ... destination"
IsConversion(e) == IsRun(e) /\ <<"-i">> \in Range(e.cmd)
SourceArg(e) == e.cmd[RFind(e.cmd, <<"-i">>) + 1]
DestArg(e) == Last(e.cmd)
ConversionIdx == {k \in EventIdx : IsConversion(events[k])}

\* e is a line "<timestamp> <level> ..." on standard output
IsLine(e, level) ==
    /\ IsStdout(e)
    /\ \E t \in 0..now : IsPrefix(IsoFormat(t) \o <<" ", level, " ">>, e.text)
\* the line e holds the token or text x
Mentions(e, x) == Contains(x, e.text)
IsStarted(e) == IsLine(e, "INFO") /\ Mentions(e, <<"=== Conversion started: ">>)
IsFinished(e) == IsLine(e, "INFO") /\ Mentions(e, <<"=== Conversion finished: ">>)
IsConverting(e, file) ==
    IsLine(e, "INFO") /\ Mentions(e, <<"Converting: ">>) /\ Mentions(e, PathStr(file))
IsConverted(e, file) ==
    IsLine(e, "INFO") /\ Mentions(e, <<"Converted: ">>) /\ Mentions(e, PathStr(file))
IsFailed(e, file) ==
    IsLine(e, "ERROR") /\ Mentions(e, <<"Failed to convert ">>) /\ Mentions(e, PathStr(file))

\* the files for which the tool has been run
Attempted == {f \in Range(heic_files) : \E k \in ConversionIdx : SourceArg(events[k]) = PathStr(f)}

(***************************************************************************)
(* C1                                                                      *)
(***************************************************************************)
\* C1: a failing conversion is followed by an ERROR line naming the file and
\* never ends the run: once the process has ended after any conversion, the
\* tool has been run for every discovered file, the loop is through, and the
\* last thing written is the "=== Conversion finished" marker.
C1_FailureIsolation ==
    /\ \A k \in ConversionIdx :
          events[k].rc # 0 =>
             \E j \in EventIdx :
                /\ j > k
                /\ IsLine(events[j], "ERROR")
                /\ Mentions(events[j], SourceArg(events[k]))
    /\ (Terminated /\ ConversionIdx # {}) =>
          /\ Attempted = Range(heic_files)
          /\ idx = Len(heic_files)
          /\ IsFinished(Last(events))
          /\ exit_code = 0

\* a finished run in which a conversion failed and a later file was still tried
C1_Witness ==
    /\ pc = "returned"
    /\ \E k, m \in ConversionIdx :
          k < m /\ events[k].rc # 0 /\ SourceArg(events[m]) # SourceArg(events[k])

(***************************************************************************)
(* C2                                                                      *)
(***************************************************************************)
\* C2 as stated: when discovery finds nothing, the process exits 0 having
\* created no directory and run the tool not at all.
C2_EmptyNoToolAtAll ==
    pc = "nothing_found" =>
       /\ exit_code = 0
       /\ \A k \in EventIdx : ~IsMkdir(events[k]) /\ ~IsRun(events[k])

\* C2, amended: when discovery finds nothing, the process exits 0 having
\* created no directory and run no conversion; the tool has been run exactly
\* once, for the capability probe that precedes discovery.
C2_EmptyNoConversion ==
    pc = "nothing_found" =>
       /\ exit_code = 0
       /\ heic_files = <<>>
       /\ \A k \in EventIdx : ~IsMkdir(events[k]) /\ ~IsConversion(events[k])
       /\ \A p \in DOMAIN fs : Name(p) = converted => p = OldOutDir
       /\ Cardinality({k \in EventIdx : IsRun(events[k])}) = 1
       /\ \E k \in EventIdx : IsProbe(events[k])

\* a directory holding only files that do not match, scanned to the end
C2_Witness ==
    /\ pc = "nothing_found"
    /\ config.input_path = InDir
    /\ IsFile(fs, FileB) /\ IsFile(fs, FileC)
    /\ ~Exists(fs, OldOutDir)

(***************************************************************************)
(* C3                                                                      *)
(***************************************************************************)
\* the probe ran and its listing holds neither marker
ProbeFoundNoMarker ==
    \E k \in EventIdx :
       /\ IsProbe(events[k])
       /\ events[k].rc # -1
       /\ ~Contains(<<"h", "e", "i", "f">>, Lower(events[k].text))
       /\ ~Contains(<<"h", "e", "i", "c">>, Lower(events[k].text))

\* C3: when the probe's listing holds no "heif"/"heic" marker, a WARNING line
\* is on standard output and the run is not blocked: it goes on to discovery,
\* and when it has ended every discovered file has been attempted.
C3_WarnsAndContinues ==
    ProbeFoundNoMarker =>
       /\ \E k \in EventIdx : IsLine(events[k], "WARNING")
       /\ pc \in {"collect", "prepare", "loop", "nothing_found", "returned"}
       /\ Terminated => Attempted = Range(heic_files)

(***************************************************************************)
(* C4                                                                      *)
(***************************************************************************)
\* C4: with no ffmpeg on PATH the run never gets past find_ffmpeg: it runs
\* no probe and no conversion, creates no directory, and once the arguments
\* are accepted it ends with a non-zero status and no file discovered.
C4_NoFfmpegNoWork ==
    which = <<>> =>
       /\ pc \in {"parse_args", "usage_error", "find_ffmpeg", "no_ffmpeg"}
       /\ \A k \in EventIdx : ~IsRun(events[k]) /\ ~IsMkdir(events[k])
       /\ heic_files = <<>>
       /\ \A p \in DOMAIN fs : Name(p) = converted => p = OldOutDir
       /\ Terminated => exit_code # 0

\* valid arguments, files to convert, and no ffmpeg: the run has ended
C4_Witness ==
    /\ pc = "no_ffmpeg"
    /\ which = <<>>
    /\ config.input_path = InDir
    /\ IsFile(fs, FileA)
    /\ exit_code = 1

(***************************************************************************)
(* C5                                                                      *)
(***************************************************************************)
\* the command line is one parse_args must reject
ConfigInvalid ==
    \/ argv.i = <<>>
    \/ argv.o \notin {png, jpg}
    \/ Resolve(argv.i) \notin DOMAIN fs

\* the conversions that failed
FailedIdx == {k \in ConversionIdx : events[k].rc # 0}

\* C5: a run that has ended has a non-zero status exactly when the arguments
\* are invalid or ffmpeg is not on PATH; whatever the probe, the files found
\* and the failures, every other run ends at one of main's two returns, and
\* the return after the loop comes only when every file has been attempted.
C5_ExitStatus ==
    /\ Terminated => (exit_code # 0 <=> (ConfigInvalid \/ which = <<>>))
    /\ (Terminated /\ exit_code = 0) => pc \in {"nothing_found", "returned"}
    /\ pc = "returned" => Attempted = Range(heic_files) /\ idx = Len(heic_files)
    /\ (~Terminated /\ pc # "parse_args") => ~ConfigInvalid

\* every one of several conversions failed and the run still exited 0
C5_Witness ==
    /\ pc = "returned"
    /\ exit_code = 0
    /\ Len(heic_files) >= 2
    /\ FailedIdx = ConversionIdx
    /\ Cardinality(ConversionIdx) = Len(heic_files)

(***************************************************************************)
(* C6                                                                      *)
(***************************************************************************)
\* the paths whose entry in the tree differs between t and u
Changed(t, u) ==
    {p \in DOMAIN t \cup DOMAIN u :
        p \notin DOMAIN t \/ p \notin DOMAIN u \/ t[p] # u[p]}

\* d names a direct child of the directory dir
IsChildOf(d, dir) ==
    LET prefix == PathStr(dir) \o <<"/">>
        rest == SubSeq(d, Len(prefix) + 1, Len(d))
    IN IsPrefix(prefix, d) /\ rest # <<>> /\ "/" \notin Range(rest)

\* the state part of C6
C6_OneOutputDir ==
    /\ pc \in {"loop", "returned"} =>
          /\ out_dir = Append(Parent(heic_files[1]), converted)
          /\ IsDir(fs, out_dir)
          /\ \A k \in EventIdx : IsMkdir(events[k]) => events[k].text = PathStr(out_dir)
          /\ Cardinality({k \in EventIdx : IsMkdir(events[k])}) = 1
    /\ pc \notin {"loop", "returned"} =>
          \A k \in EventIdx : ~IsMkdir(events[k]) /\ ~IsConversion(events[k])
    /\ \A k \in ConversionIdx : IsChildOf(DestArg(events[k]), out_dir)
    /\ \A p \in DOMAIN fs :
          (Name(p) = converted /\ p # OldOutDir) => p = out_dir

\* the step part of C6
C6_Confined ==
    \A p \in Changed(fs, fs') : p = out_dir' \/ Parent(p) = out_dir'

\* C6: there is one output directory, parent(first discovered file)/converted,
\* made by the one mkdir of the run and a directory from then on; every
\* destination handed to the converter is a direct child of it, whichever
\* subdirectory the source is in; and no step changes the tree anywhere but
\* at that directory or a direct child of it.
C6_WriteConfinement == [](C6_OneOutputDir) /\ [][C6_Confined]_vars

\* a file from another subdirectory than the first was converted into a
\* directory that was there before the run and still holds its old file
C6_Witness ==
    /\ pc = "returned"
    /\ out_dir = OldOutDir
    /\ heic_files = <<FileA, FileDeep>>
    /\ IsFile(fs, OldOutput) /\ fs[OldOutput].data.orig = <<"old">>
    /\ IsFile(fs, Append(OldOutDir, Stem(FileDeep) \o <<".">> \o config.output_ext))

(***************************************************************************)
(* C7                                                                      *)
(***************************************************************************)
\* the successful conversions, so far, whose destination is d
WonIdx(d) == {k \in ConversionIdx : events[k].rc = 0 /\ DestArg(events[k]) = d}
MaxOf(S) == CHOOSE k \in S : \A j \in S : j <= k
\* the discovered file whose str() is s
FileOfArg(s) == CHOOSE f \in Range(heic_files) : PathStr(f) = s

\* C7: the n-th conversion's destination is out_dir/stem(source).ext, the n-th
\* source being the n-th discovered file, so that sources with one stem share
\* one destination; and a destination that conversions succeeded for holds the
\* image of the last such source, in the output format.
C7_DestinationNames ==
    /\ \A k \in ConversionIdx :
          LET n == Cardinality({j \in ConversionIdx : j <= k})
              f == heic_files[n]
          IN /\ SourceArg(events[k]) = PathStr(f)
             /\ DestArg(events[k]) =
                   PathStr(out_dir) \o <<"/">> \o Stem(f) \o <<".">> \o config.output_ext
    /\ \A f \in Attempted :
          LET d == Append(out_dir, Stem(f) \o <<".">> \o config.output_ext)
              won == WonIdx(PathStr(d))
          IN won # {} =>
                /\ IsFile(fs, d)
                /\ fs[d].data = Data(FileOfArg(SourceArg(events[MaxOf(won)])),
                                     config.output_ext)

\* two sources with one stem were both converted with success: the later wins
C7_Witness ==
    /\ pc = "returned"
    /\ heic_files = <<FileA, FileSubA>>
    /\ Cardinality(WonIdx(PathStr(Append(out_dir, <<"a", ".">> \o config.output_ext)))) = 2
    /\ fs[Append(out_dir, <<"a", ".">> \o config.output_ext)].data.orig = FileSubA

(***************************************************************************)
(* C8                                                                      *)
(***************************************************************************)
\* name ends with the five characters ".heic", in this case
EndsWithDotHeic(name) ==
    /\ Len(name) >= 5
    /\ name[Len(name) - 4] = "." /\ name[Len(name) - 3] = "h"
    /\ name[Len(name) - 2] = "e" /\ name[Len(name) - 1] = "i" /\ name[Len(name)] = "c"

\* C8: for a regular file given as input the list is that file alone; for a
\* directory it lists, once each, exactly the regular files below it, at any
\* depth, whose name ends in ".heic": no directory, no "b.HEIC", no "c.txt".
C8_Discovery ==
    pc \in {"prepare", "loop", "nothing_found", "returned"} =>
       LET input == config.input_path
       IN IF fs[input].kind = "file"
          THEN heic_files = <<input>>
          ELSE /\ Range(heic_files) =
                     {p \in DOMAIN fs : /\ fs[p].kind = "file"
                                        /\ Len(p) > Len(input)
                                        /\ SubSeq(p, 1, Len(input)) = input
                                        /\ EndsWithDotHeic(p[Len(p)])}
               /\ Cardinality(Range(heic_files)) = Len(heic_files)
               /\ Range(heic_files) \cap {FileB, FileC, HeicDir, SubDir, DeepDir} = {}

\* a directory with a.heic, b.HEIC, a directory d.heic and a file two levels
\* down: two files are found
C8_Witness ==
    /\ pc = "prepare"
    /\ config.input_path = InDir
    /\ IsFile(fs, FileB) /\ IsDir(fs, HeicDir)
    /\ heic_files = <<FileA, FileDeep>>

(***************************************************************************)
(* C9                                                                      *)
(***************************************************************************)
\* where the "=== Conversion started" line is, 0 if nowhere
StartedAt ==
    LET S == {k \in EventIdx : IsStarted(events[k])}
    IN IF S = {} THEN 0 ELSE CHOOSE k \in S : \A j \in S : k <= j

\* C9: from the "=== Conversion started" line on, which directly follows the
\* mkdir of the output directory, the record is, for the 1st, 2nd, ... file of
\* the list in turn, its "Converting" line, one run of the converter on it,
\* and one outcome line for it, "Converted" after exit status 0 and "Failed to
\* convert" after any other; nothing else, no conversion earlier, and at the
\* end of the run the "=== Conversion finished" line and nothing after it.
C9_PerFileProtocol ==
    /\ pc \notin {"loop", "returned"} => ConversionIdx = {} /\ StartedAt = 0
    /\ pc \in {"loop", "returned"} =>
          LET s == StartedAt
          IN /\ s > 1
             /\ IsMkdir(events[s - 1]) /\ events[s - 1].text = PathStr(out_dir)
             /\ ConversionIdx = {s + (3 * n) - 1 : n \in 1..idx}
             /\ Len(events) = s + (3 * idx) + (IF pc = "returned" THEN 1 ELSE 0)
             /\ pc = "returned" => idx = Len(heic_files) /\ IsFinished(Last(events))
             /\ \A k \in EventIdx : IsFinished(events[k]) => pc = "returned" /\ k = Len(events)
             /\ \A n \in 1..idx :
                   LET file == heic_files[n]
                       before == events[s + (3 * n) - 2]
                       run == events[s + (3 * n) - 1]
                       after == events[s + (3 * n)]
                   IN /\ IsConverting(before, file)
                      /\ SourceArg(run) = PathStr(file)
                      /\ IF run.rc = 0
                         THEN IsConverted(after, file) /\ ~IsLine(after, "ERROR")
                         ELSE IsFailed(after, file) /\ ~Mentions(after, <<"Converted: ">>)

\* a finished run over several files, some converted and some failed
C9_Witness ==
    /\ pc = "returned"
    /\ Len(heic_files) = 3
    /\ \E k, m \in ConversionIdx : events[k].rc = 0 /\ events[m].rc # 0

(***************************************************************************)
(* C10                                                                     *)
(***************************************************************************)
\* what the claim says log writes for the call: the interpolated message, or
\* the message and the arguments' strings when interpolation fails
C10_Text ==
    LET r == Interpolate(call.message, call.args)
    IN IF r.ok THEN r.text
       ELSE call.message \o <<" ">> \o JoinSpace([i \in 1..Len(call.args) |-> call.args[i].repr])

\* C10: every call of log, with or without extra arguments, writes exactly
\* one line "<timestamp> <level> <text>" to standard output.
C10_OneLinePerCall ==
    pc = "logged" =>
       /\ Len(events) = 1
       /\ IsStdout(events[1])
       /\ \E t \in 0..now : events[1].text = IsoFormat(t) \o <<" ", call.level, " ">> \o C10_Text

====
